---------------------------- MODULE Spec2Model ----------------------------
(***************************************************************************)
(* A model of export2hdf5: the channel-set utility                         *)
(* (utilities_general.py), the HDF5 container writer (utilities_h5.py)     *)
(* the NeurOne binary event codec (utilities_neurone.py) and the           *)
(* export of the orchestrator and its command line (export_hdf5.py).       *)
(*                                                                         *)
(* Five specifications share the variables below; each one keeps the       *)
(* variables it does not use at their idle values:                         *)
(*   SpecChannels  get_channels_in_set applied to a drawn argument         *)
(*   SpecWriter    add_data_h5 driven record by record on a container      *)
(*   SpecCodec     read_neurone_events / write_neurone_events on a drawn   *)
(*                 byte stream                                             *)
(*   SpecExport    export_hdf5_signal writing the mappings of one source   *)
(*                 through add_data_h5 and add_metadata_h5                 *)
(*   SpecJob       export2hdf5_cli and export_hdf5 on a drawn command line *)
(*                 and job description                                     *)
(***************************************************************************)
EXTENDS Integers, Sequences, FiniteSets, TLC

VARIABLES
    cs_arg,             \* get_channels_in_set: the argument `dataset`
    cs_pc,              \* "call" | "returned" | "raised"
    cs_ret,             \* the list returned (<<>> until then)
    cs_err,             \* "none" or the exception raised
    dataset,            \* add_data_h5: the argument `dataset` (list of records)
    fid,                \* the HDF5 file: path -> object
    fid_pre,            \* the file as it was when the current call started
    w_call,             \* arguments of the current call: path, channels, shared_group
    w_pc,               \* "idle" | "loop" | "returned" | "raised"
    w_i,                \* position of `for i in dataset` (1-based)
    timevector_added,   \* local of add_data_h5
    metadata_added,     \* local of add_data_h5
    w_err,              \* "none" or the exception raised
    ncalls,             \* calls of add_data_h5 made on this file
    stream,             \* the bytes of events.bin
    sampling_rate,      \* read_neurone_events: the argument sampling_rate
    c_pc,               \* "off" | "start" | "read" | "array" | "decoded" | "raised"
    n_events,           \* local of read_neurone_events
    c_i,                \* position of `for i in range(n_events)` (0-based)
    events,             \* local `events`: the dicts parsed so far
    table,              \* the structured array returned (its rows)
    c_err,              \* "none" or the exception raised
    enc_events,         \* write_neurone_events: the argument `events`
    enc_pc,             \* "idle" | "call" | "loop" | "closed" | "raised"
    enc_i,              \* position of `for e in events` (1-based)
    enc_j,              \* position of `for j in range(5)` (0-based)
    out_file,           \* the bytes of the file written
    enc_err,            \* "none" or the exception raised
    x_cfg,              \* export_hdf5_signal: the mappings as configured, so far
    x_maps,             \* the same mappings as the code has left them (dset_map)
    x_pc,               \* "off" | "next" | "add_data" | "writing" | "done" | "raised"
    x_err,              \* "none" or the exception raised
    cli_args,           \* export2hdf5_cli: args.config_file, args.validate_only
    cfg_file,           \* the job-description file: JSON, schema verdict, content
    j_pc,               \* position in export2hdf5_cli / export_hdf5, "exited" at the end
    j_res,              \* local `res` of export2hdf5_cli
    exit_status,        \* exit status of the process (-1 while it runs)
    j_config,           \* local `config` of export_hdf5
    j_disk,             \* the output path on disk: "absent" | "old" | "new"
    j_handle,           \* the h5py.File handle: "none" | "open" | "closed"
    j_k,                \* position of `for dataset in dataset_list` (1-based)
    j_m,                \* position of `for dset_map in dataset["maps"]` (1-based)
    j_data,             \* local `data`: what the reader returned
    j_log,              \* the reads and writes made so far, in order
    j_err               \* "none" or the exception that ended the process

chanVars   == <<cs_arg, cs_pc, cs_ret, cs_err>>
writerVars == <<dataset, fid, fid_pre, w_call, w_pc, w_i, timevector_added,
                metadata_added, w_err, ncalls>>
codecVars  == <<stream, sampling_rate, c_pc, n_events, c_i, events, table, c_err,
                enc_events, enc_pc, enc_i, enc_j, out_file, enc_err>>
exportVars == <<x_cfg, x_maps, x_pc, x_err>>
jobVars == <<cli_args, cfg_file, j_pc, j_res, exit_status, j_config, j_disk, j_handle,
             j_k, j_m, j_data, j_log, j_err>>
vars == <<chanVars, writerVars, codecVars, exportVars, jobVars>>

---------------------------------------------------------------------------
(* Python values.  A dict is its keys in insertion order plus a map.       *)

Contains(s, x) == \E k \in 1..Len(s) : s[k] = x

IndexOf(s, x) == IF Contains(s, x)
                 THEN CHOOSE k \in 1..Len(s) :
                        s[k] = x /\ \A j \in 1..(k-1) : s[j] # x
                 ELSE 0

RemoveAt(s, ind) == SubSeq(s, 1, ind - 1) \o SubSeq(s, ind + 1, Len(s))

SeqToSet(s) == {s[k] : k \in 1..Len(s)}

EmptyDict == [keys |-> <<>>, val |-> <<>>]

DictHas(d, k) == Contains(d.keys, k)

DictSet(d, k, v) ==
    [keys |-> IF DictHas(d, k) THEN d.keys ELSE Append(d.keys, k),
     val  |-> [x \in SeqToSet(d.keys) \cup {k} |-> IF x = k THEN v ELSE d.val[x]]]

DictDel(d, k) ==
    [keys |-> RemoveAt(d.keys, IndexOf(d.keys, k)),
     val  |-> [x \in SeqToSet(d.keys) \ {k} |-> d.val[x]]]

---------------------------------------------------------------------------
(* Bounds and input domains.                                               *)

MaxRecs == 2        \* records in a dataset handed to the writer
CsMaxRecs == 2      \* records in a dataset handed to get_channels_in_set
MaxCalls == 2       \* calls of add_data_h5 on one file

Fields == {"a", "b", "time"}

\* every insertion order of distinct keys of a record's data dict
KeySeqs == UNION {{s \in [1..n -> Fields] : \A i, j \in 1..n : i # j => s[i] # s[j]}
                  : n \in 0..Cardinality(Fields)}

\* the sample value a reader stores for field k at position j
SampleAt(k, j) == (IF k = "a" THEN 10 ELSE 20) + j

\* meta values: a number, a string (its characters), or a datetime
Num(n) == [type |-> "num", n |-> n, chars |-> <<>>, dt |-> <<>>]
Str(chars) == [type |-> "str", n |-> 0, chars |-> chars, dt |-> <<>>]
DateTime(y, mo, d, h, mi, s) ==
    [type |-> "datetime", n |-> 0, chars |-> <<>>, dt |-> <<y, mo, d, h, mi, s>>]

Meta1 == [keys |-> <<"time_start", "sampling_rate">>,
          val  |-> [k \in {"time_start", "sampling_rate"} |->
                      IF k = "time_start"
                      THEN DateTime(2016, 3, 9, 14, 5, 0)
                      ELSE Num(100)]]

Meta2 == [keys |-> <<"time_start", "sampling_rate", "unit">>,
          val  |-> [k \in {"time_start", "sampling_rate", "unit"} |->
                      IF k = "time_start" THEN Str(<<>>)
                      ELSE IF k = "sampling_rate" THEN Num(0)
                      ELSE Num(1)]]

\* one record {"meta": ..., "data": {...}} with the given key order, time
\* axis, number of samples per data field, and meta
MkRecord(keys, time, nsamp, meta) ==
    [data |-> [keys |-> keys,
               val  |-> [k \in SeqToSet(keys) |->
                           IF k = "time" THEN time
                           ELSE [j \in 1..nsamp |-> SampleAt(k, j)]]],
     meta |-> meta]

\* (time axis, samples per field, meta) as readers produce them; the third
\* is a defective read whose samples are shorter than its time axis
Variants == { <<(<<0, 1>>), 2, Meta1>>,
              <<(<<0, 2>>), 2, Meta2>>,
              <<(<<0, 1>>), 1, Meta1>> }

---------------------------------------------------------------------------
(* utilities_general.get_channels_in_set                                   *)

\* the mutant of CollectKeys that drops `if ch_name not in channels`
RECURSIVE CollectKeysNoCheck(_, _)
CollectKeysNoCheck(channels, keys) ==
    IF keys = <<>> THEN channels
    ELSE CollectKeysNoCheck(Append(channels, Head(keys)), Tail(keys))

\* for ch_name in ch_data["data"].keys(): if ch_name not in channels: ...
RECURSIVE CollectKeys(_, _)
CollectKeys(channels, keys) ==
    IF keys = <<>> THEN channels
    ELSE CollectKeys(IF Contains(channels, Head(keys))
                     THEN channels
                     ELSE Append(channels, Head(keys)),
                     Tail(keys))

\* for ch_data in dataset: ...
RECURSIVE CollectChannels(_, _)
CollectChannels(channels, ds) ==
    IF ds = <<>> THEN channels
    ELSE CollectChannels(CollectKeys(channels, Head(ds).data.keys), Tail(ds))

\* The argument is tagged: a list of records, or one record standing alone.
AsList(arg) == IF arg.isList THEN arg.items ELSE <<arg.item>>

\* channels.index("time") raises ValueError when "time" was never seen
get_channels_in_set(arg) ==
    LET channels == CollectChannels(<<>>, AsList(arg))
        ind      == IndexOf(channels, "time")
    IN  IF ind = 0
        THEN [err |-> "ValueError", val |-> <<>>]
        ELSE [err |-> "none", val |-> RemoveAt(channels, ind)]

---------------------------------------------------------------------------
(* SpecChannels                                                            *)

CsRecords == {MkRecord(ks, <<0, 1>>, 2, Meta1) : ks \in KeySeqs}

CsArgs == {[isList |-> TRUE, items |-> s, item |-> <<>>] :
             s \in UNION {[1..n -> CsRecords] : n \in 0..CsMaxRecs}}
          \cup {[isList |-> FALSE, items |-> <<>>, item |-> r] : r \in CsRecords}

WriterIdle ==
    /\ dataset = <<>>
    /\ fid = <<>>
    /\ fid_pre = <<>>
    /\ w_call = <<>>
    /\ w_pc = "idle"
    /\ w_i = 0
    /\ timevector_added = FALSE
    /\ metadata_added = FALSE
    /\ w_err = "none"
    /\ ncalls = 0

CodecIdle ==
    /\ stream = <<>>
    /\ sampling_rate = 0
    /\ c_pc = "off"
    /\ n_events = 0
    /\ c_i = 0
    /\ events = <<>>
    /\ table = <<>>
    /\ c_err = "none"
    /\ enc_events = <<>>
    /\ enc_pc = "idle"
    /\ enc_i = 0
    /\ enc_j = 0
    /\ out_file = <<>>
    /\ enc_err = "none"

ChannelsIdle ==
    /\ cs_arg = <<>>
    /\ cs_pc = "idle"
    /\ cs_ret = <<>>
    /\ cs_err = "none"

ExportIdle ==
    /\ x_cfg = <<>>
    /\ x_maps = <<>>
    /\ x_pc = "off"
    /\ x_err = "none"

JobIdle ==
    /\ cli_args = <<>>
    /\ cfg_file = <<>>
    /\ j_pc = "off"
    /\ j_res = "unset"
    /\ exit_status = -1
    /\ j_config = <<>>
    /\ j_disk = "absent"
    /\ j_handle = "none"
    /\ j_k = 0
    /\ j_m = 0
    /\ j_data = <<>>
    /\ j_log = <<>>
    /\ j_err = "none"

InitChannels ==
    /\ cs_arg \in CsArgs
    /\ cs_pc = "call"
    /\ cs_ret = <<>>
    /\ cs_err = "none"
    /\ WriterIdle
    /\ CodecIdle
    /\ ExportIdle
    /\ JobIdle

GetChannelsInSet ==
    /\ cs_pc = "call"
    /\ LET r == get_channels_in_set(cs_arg)
       IN  /\ cs_pc' = IF r.err = "none" THEN "returned" ELSE "raised"
           /\ cs_ret' = r.val
           /\ cs_err' = r.err
    /\ UNCHANGED <<cs_arg, writerVars, codecVars, exportVars, jobVars>>

NextChannels == GetChannelsInSet

SpecChannels == InitChannels /\ [][NextChannels]_vars

\* every key of every record, in iteration order
RECURSIVE FlatKeys(_)
FlatKeys(ds) == IF ds = <<>> THEN <<>> ELSE Head(ds).data.keys \o FlatKeys(Tail(ds))

\* C1: whenever get_channels_in_set returns, its result never contains
\* "time" and contains every other data-field name of the records exactly
\* once, in the order in which the names are first seen across the records.
C1_ResolveChannels ==
    cs_pc = "returned" =>
        LET flat == FlatKeys(AsList(cs_arg))
        IN  /\ ~Contains(cs_ret, "time")
            /\ SeqToSet(cs_ret) = SeqToSet(flat) \ {"time"}
            /\ \A n \in SeqToSet(flat) \ {"time"} :
                   Cardinality({k \in 1..Len(cs_ret) : cs_ret[k] = n}) = 1
            /\ \A i, j \in 1..Len(cs_ret) :
                   i < j => IndexOf(flat, cs_ret[i]) < IndexOf(flat, cs_ret[j])

\* a two-record list whose first record starts with "time" and whose second
\* record repeats a name of the first and adds a new one
C1_Witness ==
    /\ cs_pc = "returned"
    /\ cs_arg.isList
    /\ Len(cs_arg.items) = 2
    /\ cs_arg.items[1].data.keys = <<"time", "b">>
    /\ cs_arg.items[2].data.keys = <<"b", "time", "a">>
    /\ cs_ret = <<"b", "a">>

\* a record standing alone is treated as a one-element list
C1_WitnessSingle ==
    /\ cs_pc = "returned"
    /\ ~cs_arg.isList
    /\ cs_arg.item.data.keys = <<"a", "time", "b">>
    /\ cs_ret = <<"a", "b">>

\* C17: when no record of the argument has a "time" field,
\* get_channels_in_set does not raise: it returns the names it collected.
C17_MissingTimeTolerated ==
    (cs_pc # "call" /\ ~Contains(FlatKeys(AsList(cs_arg)), "time"))
    => /\ cs_pc = "returned"
       /\ SeqToSet(cs_ret) = SeqToSet(FlatKeys(AsList(cs_arg)))

---------------------------------------------------------------------------
(* h5py, as utilities_h5.py uses it.  The file maps the path of every      *)
(* object (a sequence of names) to the object; attrs is a set of           *)
(* <<key, value>> pairs with one pair per key.                             *)

EmptyFile == [p \in {} |-> 0]

Group == [kind |-> "group", data |-> <<>>, attrs |-> {}]

Leaf(data) == [kind |-> "dataset", data |-> data, attrs |-> {}]

ProperPrefixes(p) == {SubSeq(p, 1, n) : n \in 1..(Len(p) - 1)}

\* `path in fid`
H5Contains(f, p) == p \in DOMAIN f

\* a link can be created at p when p is free and every ancestor that exists
\* is a group; missing ancestors are created as groups
H5CanCreate(f, p) ==
    /\ p \notin DOMAIN f
    /\ \A q \in ProperPrefixes(p) : q \in DOMAIN f => f[q].kind = "group"

H5Create(f, p, obj) ==
    [q \in DOMAIN f \cup ProperPrefixes(p) \cup {p} |->
        IF q = p THEN obj ELSE IF q \in DOMAIN f THEN f[q] ELSE Group]

\* fid.create_group(path)
create_group(f, p) ==
    IF H5CanCreate(f, p)
    THEN [err |-> "none", f |-> H5Create(f, p, Group)]
    ELSE [err |-> "ValueError", f |-> f]

\* fid.create_dataset(path, shape=data.shape, dtype="f", data=data); the
\* samples of the model are small integers, which dtype "f" holds exactly
create_dataset(f, p, data) ==
    IF H5CanCreate(f, p)
    THEN [err |-> "none", f |-> H5Create(f, p, Leaf(data))]
    ELSE [err |-> "ValueError", f |-> f]

\* obj.attrs[key] = val
AttrSet(attrs, key, val) == {a \in attrs : a[1] # key} \cup {<<key, val>>}

---------------------------------------------------------------------------
(* utilities_h5.py                                                         *)

\* mutants of get_group: the group never created; an existing object that
\* is no group replaced by a new group
get_groupNoCreate(f, path) == [err |-> "none", f |-> f]

get_groupRecreate(f, path) ==
    IF ~H5Contains(f, path) THEN create_group(f, path)
    ELSE IF f[path].kind # "group" THEN [err |-> "none", f |-> [f EXCEPT ![path] = Group]]
    ELSE [err |-> "none", f |-> f]

\* if path not in fid: grp = fid.create_group(path) else: grp = fid[path]
get_group(f, path) ==
    IF ~H5Contains(f, path) THEN create_group(f, path) ELSE [err |-> "none", f |-> f]

DigitChars == <<"0", "1", "2", "3", "4", "5", "6", "7", "8", "9">>

Digit(d) == DigitChars[d + 1]

Pad2(n) == <<Digit((n \div 10) % 10), Digit(n % 10)>>

\* val.strftime("%Y%m%dT%H%M%S")
strftime(dt) ==
    Pad2(dt[1] \div 100) \o Pad2(dt[1] % 100) \o Pad2(dt[2]) \o Pad2(dt[3])
    \o <<"T">> \o Pad2(dt[4]) \o Pad2(dt[5]) \o Pad2(dt[6])

\* the value add_metadata stores for val
AttrValue(val) == IF val.type = "datetime" THEN Str(strftime(val.dt)) ELSE val

RECURSIVE AddMetaKeys(_, _, _)
AddMetaKeys(attrs, meta, keys) ==
    IF keys = <<>> THEN attrs
    ELSE AddMetaKeys(AttrSet(attrs, Head(keys), AttrValue(meta.val[Head(keys)])),
                     meta, Tail(keys))

\* add_metadata(obj, meta), obj being the object at path p
add_metadata(f, p, meta) ==
    [f EXCEPT ![p].attrs = AddMetaKeys(@, meta, meta.keys)]

\* channel = utils.get_channels_in_set(i)[0]
FirstChannel(rec) ==
    LET r == get_channels_in_set([isList |-> FALSE, items |-> <<>>, item |-> rec])
    IN  IF r.err # "none" THEN [err |-> r.err, channel |-> ""]
        ELSE IF r.val = <<>> THEN [err |-> "IndexError", channel |-> ""]
        ELSE [err |-> "none", channel |-> r.val[1]]

\* mutants of WriteSharedTime: the flag test inverted; the leaf rewritten by
\* every matching record
WriteSharedTimeInverted(f, path, rec, tv_added) ==
    IF ~tv_added THEN [err |-> "none", f |-> f]
    ELSE create_dataset(f, Append(path, "time"), rec.data.val["time"])

WriteSharedTimeLast(f, path, rec, tv_added) ==
    IF tv_added
    THEN [err |-> "none",
          f |-> [f EXCEPT ![Append(path, "time")].data = rec.data.val["time"]]]
    ELSE create_dataset(f, Append(path, "time"), rec.data.val["time"])

\* if not timevector_added: dset_t = fid.create_dataset(path + "/time", ...)
WriteSharedTime(f, path, rec, tv_added) ==
    IF tv_added THEN [err |-> "none", f |-> f]
    ELSE create_dataset(f, Append(path, "time"), rec.data.val["time"])

\* if not metadata_added: add_metadata(grp, i["meta"])
WriteGroupMeta(f, path, rec, md_added) ==
    IF md_added THEN f ELSE add_metadata(f, path, rec.meta)

\* mutant of Requested: the membership test dropped
RequestedAlways(channel, channels) == TRUE

\* `if channel in channels`
Requested(channel, channels) == Contains(channels, channel)

\* one iteration of `for i in dataset` with shared_group true
SharedStep(f, call, rec, tv_added, md_added) ==
    LET c == FirstChannel(rec)
        path_tmp == Append(call.path, c.channel)
    IN  IF c.err # "none" THEN [err |-> c.err, f |-> f, tv |-> tv_added]
        ELSE IF ~Requested(c.channel, call.channels)
        THEN [err |-> "none", f |-> f, tv |-> tv_added]
        ELSE LET d == create_dataset(f, path_tmp, rec.data.val[c.channel])
             IN  IF d.err # "none" THEN [err |-> d.err, f |-> f, tv |-> tv_added]
                 ELSE LET f1 == add_metadata(d.f, path_tmp, rec.meta)
                          t  == WriteSharedTime(f1, call.path, rec, tv_added)
                      IN  IF t.err # "none"
                          THEN [err |-> t.err, f |-> f1, tv |-> tv_added]
                          ELSE [err |-> "none",
                                f   |-> WriteGroupMeta(t.f, call.path, rec, md_added),
                                tv  |-> TRUE]

\* mutant of PrivateStep: the metadata attached to the subgroup instead of
\* the data leaf
PrivateStepMetaOnGroup(f, call, rec) ==
    LET c == FirstChannel(rec)
        path_tmp == Append(call.path, c.channel)
    IN  IF c.err # "none" THEN [err |-> c.err, f |-> f]
        ELSE IF ~Contains(call.channels, c.channel) THEN [err |-> "none", f |-> f]
        ELSE LET d == create_dataset(f, Append(path_tmp, "data"), rec.data.val[c.channel])
             IN  IF d.err # "none" THEN [err |-> d.err, f |-> f]
                 ELSE LET t == create_dataset(d.f, Append(path_tmp, "time"),
                                              rec.data.val["time"])
                      IN  IF t.err # "none" THEN [err |-> t.err, f |-> d.f]
                          ELSE [err |-> "none",
                                f |-> add_metadata(t.f, path_tmp, rec.meta)]

\* mutant of PrivateStep: a second data field of the record is written too
PrivateStepBothFields(f, call, rec) ==
    LET c == FirstChannel(rec)
        path_tmp == Append(call.path, c.channel)
        others == SelectSeq(rec.data.keys, LAMBDA k : k # "time" /\ k # c.channel)
    IN  IF c.err # "none" THEN [err |-> c.err, f |-> f]
        ELSE IF ~Requested(c.channel, call.channels) THEN [err |-> "none", f |-> f]
        ELSE LET d == create_dataset(f, Append(path_tmp, "data"), rec.data.val[c.channel])
             IN  IF d.err # "none" THEN [err |-> d.err, f |-> f]
                 ELSE LET t == create_dataset(d.f, Append(path_tmp, "time"),
                                              rec.data.val["time"])
                          f2 == add_metadata(t.f, Append(path_tmp, "data"), rec.meta)
                      IN  IF t.err # "none" THEN [err |-> t.err, f |-> d.f]
                          ELSE IF others = <<>> THEN [err |-> "none", f |-> f2]
                          ELSE create_dataset(f2, call.path \o <<others[1], "data">>,
                                              rec.data.val[others[1]])

\* one iteration of `for i in dataset` with shared_group false
PrivateStep(f, call, rec) ==
    LET c == FirstChannel(rec)
        path_tmp == Append(call.path, c.channel)
    IN  IF c.err # "none" THEN [err |-> c.err, f |-> f]
        ELSE IF ~Requested(c.channel, call.channels) THEN [err |-> "none", f |-> f]
        ELSE LET d == create_dataset(f, Append(path_tmp, "data"), rec.data.val[c.channel])
             IN  IF d.err # "none" THEN [err |-> d.err, f |-> f]
                 ELSE LET t == create_dataset(d.f, Append(path_tmp, "time"),
                                              rec.data.val["time"])
                      IN  IF t.err # "none" THEN [err |-> t.err, f |-> d.f]
                          ELSE [err |-> "none",
                                f |-> add_metadata(t.f, Append(path_tmp, "data"), rec.meta)]

---------------------------------------------------------------------------
(* SpecWriter: add_data_h5 called on one file, record by record            *)

Paths == {<<"g">>, <<"g", "a">>}

ChannelLists == {<<>>, <<"a">>, <<"b">>, <<"a", "b">>}

\* records as the readers build them (one data field before or after
\* "time", or several data fields), plus two malformed ones
WKeySeqs == {<<"a", "time">>, <<"time", "b">>, <<"a", "b", "time">>}

WBadKeySeqs == {<<"time">>, <<"b">>}

WRecords == {MkRecord(ks, v[1], v[2], v[3]) : ks \in WKeySeqs, v \in Variants}
            \cup {MkRecord(ks, <<0, 1>>, 2, Meta1) : ks \in WBadKeySeqs}

InitWriter ==
    /\ dataset \in UNION {[1..n -> WRecords] : n \in 0..MaxRecs}
    /\ fid = EmptyFile
    /\ fid_pre = EmptyFile
    /\ w_call = [path |-> <<>>, channels |-> <<>>, shared |-> TRUE]
    /\ w_pc = "idle"
    /\ w_i = 0
    /\ timevector_added = FALSE
    /\ metadata_added = FALSE
    /\ w_err = "none"
    /\ ncalls = 0
    /\ ChannelsIdle
    /\ CodecIdle
    /\ ExportIdle
    /\ JobIdle

\* add_data_h5 is entered: in shared mode the group is obtained first
AddDataEnter(path, channels, shared) ==
    /\ LET g == IF shared THEN get_group(fid, path) ELSE [err |-> "none", f |-> fid]
       IN  /\ w_call' = [path |-> path, channels |-> channels, shared |-> shared]
           /\ fid' = g.f
           /\ w_err' = g.err
           /\ w_pc' = IF g.err = "none" THEN "loop" ELSE "raised"
    /\ fid_pre' = fid
    /\ w_i' = 1
    /\ timevector_added' = FALSE
    /\ metadata_added' = FALSE
    /\ ncalls' = ncalls + 1
    /\ UNCHANGED dataset

\* a call of add_data_h5 with drawn arguments
AddDataCall ==
    /\ w_pc \in {"idle", "returned"}
    /\ ncalls < MaxCalls
    /\ \E path \in Paths, channels \in ChannelLists, shared \in BOOLEAN :
          AddDataEnter(path, channels, shared)
    /\ UNCHANGED <<chanVars, codecVars, exportVars, jobVars>>

\* one iteration of the loop over the dataset
AddDataStep ==
    /\ w_pc = "loop"
    /\ w_i <= Len(dataset)
    /\ LET r == IF w_call.shared
                THEN SharedStep(fid, w_call, dataset[w_i], timevector_added,
                                metadata_added)
                ELSE [PrivateStep(fid, w_call, dataset[w_i]) EXCEPT !.err = @]
                     @@ [tv |-> timevector_added]
       IN  /\ fid' = r.f
           /\ w_err' = r.err
           /\ timevector_added' = r.tv
           /\ w_pc' = IF r.err = "none" THEN "loop" ELSE "raised"
           /\ w_i' = IF r.err = "none" THEN w_i + 1 ELSE w_i
    /\ UNCHANGED <<dataset, fid_pre, w_call, metadata_added, ncalls, chanVars,
                   codecVars, exportVars, jobVars>>

\* the loop is exhausted and add_data_h5 returns
AddDataReturn ==
    /\ w_pc = "loop"
    /\ w_i > Len(dataset)
    /\ w_pc' = "returned"
    /\ UNCHANGED <<dataset, fid, fid_pre, w_call, w_i, timevector_added,
                   metadata_added, w_err, ncalls, chanVars, codecVars, exportVars, jobVars>>

NextWriter == AddDataCall \/ AddDataStep \/ AddDataReturn

SpecWriter == InitWriter /\ [][NextWriter]_vars

---------------------------------------------------------------------------
(* Properties of add_data_h5                                               *)

\* the name of a Channel Record: its first data field other than "time"
NameOf(rec) ==
    LET ks == SelectSeq(rec.data.keys, LAMBDA k : k # "time")
    IN  IF ks = <<>> THEN "" ELSE ks[1]

\* the attributes a meta dict amounts to
AttrsOf(meta) == {<<k, AttrValue(meta.val[k])>> : k \in SeqToSet(meta.keys)}

\* positions of the records whose name is requested by the current call
Matching == {k \in 1..Len(dataset) : Contains(w_call.channels, NameOf(dataset[k]))}

FirstMatching == CHOOSE k \in Matching : \A j \in Matching : k <= j

\* every requested channel is the name of a record of the dataset
AllRequestedNamed ==
    \A c \in SeqToSet(w_call.channels) : \E k \in 1..Len(dataset) : NameOf(dataset[k]) = c

\* the requested records all carry the time axis `axis` and as many samples
SharesAxis(axis) ==
    \A k \in Matching :
        /\ DictHas(dataset[k].data, "time")
        /\ dataset[k].data.val["time"] = axis
        /\ Len(dataset[k].data.val[NameOf(dataset[k])]) = Len(axis)

\* the leaves (datasets) directly under path p
LeavesUnder(p) ==
    {q \in DOMAIN fid : /\ Len(q) = Len(p) + 1
                        /\ SubSeq(q, 1, Len(p)) = p
                        /\ fid[q].kind = "dataset"}

TimeAxes == {v[1] : v \in Variants}

\* C2: a shared-group write of N >= 1 requested channels, each the name of
\* a record and all on one time axis, leaves directly under path exactly
\* the leaf path/time and the N data leaves path/<channel>, every one of
\* them as long as the shared axis.
C2_SharedGroupLeaves ==
    \A axis \in TimeAxes :
        (/\ w_pc = "returned"
         /\ w_call.shared
         /\ w_call.channels # <<>>
         /\ AllRequestedNamed
         /\ SharesAxis(axis))
        => LET path == w_call.path
               n    == Cardinality(SeqToSet(w_call.channels))
           IN  /\ LeavesUnder(path) =
                    {Append(path, "time")}
                    \cup {Append(path, c) : c \in SeqToSet(w_call.channels)}
               /\ Cardinality(LeavesUnder(path)) = n + 1
               /\ \A q \in LeavesUnder(path) : Len(fid[q].data) = Len(axis)
               /\ fid[Append(path, "time")].data = axis

\* two channels on one axis written to one group
C2_Witness ==
    /\ w_pc = "returned"
    /\ w_call.shared
    /\ w_call.channels = <<"a", "b">>
    /\ Len(dataset) = 2
    /\ NameOf(dataset[1]) = "a"
    /\ NameOf(dataset[2]) = "b"
    /\ SharesAxis(<<0, 1>>)
    /\ Cardinality(LeavesUnder(w_call.path)) = 3

\* C3: once a shared-group write has written path/time, that leaf holds the
\* time axis of the first record (in dataset order) whose name is requested,
\* whatever the time axes of the later requested records are.
C3_TimeFromFirstMatch ==
    (w_call.shared /\ timevector_added)
    => /\ Matching # {}
       /\ Append(w_call.path, "time") \in DOMAIN fid
       /\ fid[Append(w_call.path, "time")].kind = "dataset"
       /\ fid[Append(w_call.path, "time")].data =
            dataset[FirstMatching].data.val["time"]

\* two requested records with different time axes, both written
C3_Witness ==
    /\ w_pc = "returned"
    /\ w_call.shared
    /\ Cardinality(Matching) = 2
    /\ dataset[1].data.val["time"] = <<0, 1>>
    /\ dataset[2].data.val["time"] = <<0, 2>>
    /\ fid[Append(w_call.path, "time")].data = <<0, 1>>

\* C4: after a shared-group write into a group that carried no attribute
\* before, the group's attributes are those of the first requested record's
\* meta and nothing else.
C4_GroupMetaFromFirstOnly ==
    (/\ w_pc = "returned"
     /\ w_call.shared
     /\ Matching # {}
     /\ (w_call.path \in DOMAIN fid_pre => fid_pre[w_call.path].attrs = {}))
    => fid[w_call.path].attrs = AttrsOf(dataset[FirstMatching].meta)

\* objects of the file that the current call created
Created == DOMAIN fid \ DOMAIN fid_pre

\* C5: a non-shared write of requested channels that are all names of
\* records gives every channel c a subgroup path/c holding the leaf
\* path/c/data (the record's samples, carrying the record's metadata) and
\* the leaf path/c/time (the same record's time axis); the call creates
\* nothing else below path, in particular no leaf path/time.
C5_PrivateGroups ==
    (w_pc = "returned" /\ ~w_call.shared /\ AllRequestedNamed)
    => LET path == w_call.path
       IN  /\ \A c \in SeqToSet(w_call.channels) :
                \E k \in Matching :
                    /\ NameOf(dataset[k]) = c
                    /\ fid[Append(path, c)].kind = "group"
                    /\ fid[path \o <<c, "data">>] =
                         [kind  |-> "dataset",
                          data  |-> dataset[k].data.val[c],
                          attrs |-> AttrsOf(dataset[k].meta)]
                    /\ fid[path \o <<c, "time">>] =
                         [kind  |-> "dataset",
                          data  |-> dataset[k].data.val["time"],
                          attrs |-> {}]
           /\ Created \subseteq
                ProperPrefixes(path) \cup {path}
                \cup UNION {{Append(path, c), path \o <<c, "data">>, path \o <<c, "time">>}
                            : c \in SeqToSet(w_call.channels)}
           /\ Append(path, "time") \notin Created
           /\ (path \notin DOMAIN fid_pre => Append(path, "time") \notin DOMAIN fid)

\* two channels written to private subgroups
C5_Witness ==
    /\ w_pc = "returned"
    /\ ~w_call.shared
    /\ w_call.channels = <<"a", "b">>
    /\ Cardinality(Matching) = 2
    /\ dataset[1].data.val["time"] # dataset[2].data.val["time"]
    /\ Cardinality(Created) = 7

\* C6: in both modes an iteration over a record whose name is not requested
\* leaves the file as it is.
C6_UnrequestedIgnored ==
    [][(/\ w_pc = "loop"
        /\ w_i <= Len(dataset)
        /\ ~Contains(w_call.channels, NameOf(dataset[w_i])))
       => fid' = fid]_vars

\* a call that skipped record "a" and wrote record "b", after another path
\* of the same file had been written with the other channel subset
C6_Witness ==
    /\ w_pc = "returned"
    /\ ncalls = 2
    /\ Len(dataset) = 2
    /\ NameOf(dataset[1]) = "a"
    /\ NameOf(dataset[2]) = "b"
    /\ w_call.channels = <<"b">>
    /\ w_call.path = <<"g">>
    /\ <<"g", "b">> \in Created
    /\ <<"g", "a">> \in DOMAIN fid_pre
    /\ fid[<<"g", "a">>] = fid_pre[<<"g", "a">>]

\* C7: after a shared-group write, every requested channel that is a data
\* field of some record of the dataset is a leaf under path.
C7_AllRequestedFieldsWritten ==
    (w_pc = "returned" /\ w_call.shared)
    => \A c \in SeqToSet(w_call.channels) :
          (\E k \in 1..Len(dataset) : c # "time" /\ DictHas(dataset[k].data, c))
          => /\ Append(w_call.path, c) \in DOMAIN fid
             /\ fid[Append(w_call.path, c)].kind = "dataset"

\* the time leaf that belongs to the data leaf q written by the current call
TimeLeafOf(q) ==
    IF w_call.shared THEN Append(w_call.path, "time")
    ELSE Append(SubSeq(q, 1, Len(q) - 1), "time")

\* C19: add_data_h5 never returns having stored a leaf whose length differs
\* from that of its time leaf (the shared path/time, or its own time leaf).
C19_UnequalLengthsRejected ==
    w_pc = "returned"
    => \A q \in Created :
          fid[q].kind = "dataset"
          => /\ TimeLeafOf(q) \in DOMAIN fid
             /\ Len(fid[q].data) = Len(fid[TimeLeafOf(q)].data)

\* C29: a shared-group write that returns without any record matching
\* leaves an object at path; when path was free it is a new group without
\* attributes and every missing ancestor is a new group; nothing else is
\* created and no object that existed is changed.  In every shared-group
\* write that returns, the call has created path/time exactly when some
\* record matched.
C29_NoMatchOnlyGroup ==
    (w_pc = "returned" /\ w_call.shared)
    => LET path == w_call.path
       IN  /\ Matching = {}
              => /\ path \in DOMAIN fid
                 /\ path \notin DOMAIN fid_pre => fid[path] = Group
                 /\ Created \subseteq ProperPrefixes(path) \cup {path}
                 /\ \A q \in Created : fid[q] = Group
                 /\ \A q \in DOMAIN fid_pre : fid[q] = fid_pre[q]
                 /\ Append(path, "time") \notin Created
           /\ Append(path, "time") \in Created <=> Matching # {}

\* a request for channel b on a dataset that has none, at a nested free path
C29_Witness ==
    /\ w_pc = "returned"
    /\ w_call.shared
    /\ w_call.channels = <<"b">>
    /\ Len(dataset) = 2
    /\ Matching = {}
    /\ w_call.path = <<"g", "a">>
    /\ Created = {<<"g">>, <<"g", "a">>}

\* the data leaves the current call has created
DataLeavesCreated ==
    {q \in Created : fid[q].kind = "dataset" /\ q[Len(q)] # "time"}

\* where the current call puts the data leaf of channel c
DataLeafPath(c) ==
    IF w_call.shared THEN Append(w_call.path, c) ELSE w_call.path \o <<c, "data">>

\* C30: at every point of a call of add_data_h5, the data leaves it has
\* created are leaves of records already visited, each at the place of the
\* record's first non-time field, so they are no more than those records.
C30_OneLeafPerRecord ==
    w_pc \in {"loop", "returned", "raised"}
    => /\ DataLeavesCreated \subseteq
             {DataLeafPath(NameOf(dataset[k])) : k \in Matching \cap (1..w_i)}
       /\ Cardinality(DataLeavesCreated) <= Len(dataset)
       /\ Cardinality(DataLeavesCreated) <= w_i

\* one record with two data fields, both requested: one data leaf
C30_Witness ==
    /\ w_pc = "returned"
    /\ ~w_call.shared
    /\ Len(dataset) = 1
    /\ dataset[1].data.keys = <<"a", "b", "time">>
    /\ w_call.channels = <<"a", "b">>
    /\ DataLeavesCreated = {w_call.path \o <<"a", "data">>}

---------------------------------------------------------------------------
(* Python numbers of the event codec.  An int below 2^31 is held as a      *)
(* number; a larger one (an Int64ul can reach 2^64 - 1) as its eight       *)
(* little-endian base-256 digits.  The float x / sampling_rate is held     *)
(* exactly, as quotient and remainder.                                     *)

PyInt(n) == [k |-> "int", big |-> FALSE, n |-> n, digits |-> <<>>, rem |-> 0]

PyBig(digits) == [k |-> "int", big |-> TRUE, n |-> 0, digits |-> digits, rem |-> 0]

PyFloat(q, rem) == [q EXCEPT !.k = "float", !.rem = rem]

\* long division of little-endian base-256 digits by r, most significant
\* digit first: <<quotient digits, remainder>>
RECURSIVE DivDigits(_, _, _, _)
DivDigits(digits, r, pos, carry) ==
    IF pos = 0 THEN <<[j \in 1..Len(digits) |-> 0], carry>>
    ELSE LET cur  == carry * 256 + digits[pos]
             rest == DivDigits(digits, r, pos - 1, cur % r)
         IN  <<[rest[1] EXCEPT ![pos] = cur \div r], rest[2]>>

\* x / sampling_rate (true division)
TrueDiv(x, rate) ==
    IF rate = 0 THEN [err |-> "ZeroDivisionError", val |-> PyInt(0)]
    ELSE IF x.big
    THEN LET qr == DivDigits(x.digits, rate, Len(x.digits), 0)
         IN  [err |-> "none", val |-> PyFloat(PyBig(qr[1]), qr[2])]
    ELSE [err |-> "none", val |-> PyFloat(PyInt(x.n \div rate), x.n % rate)]

---------------------------------------------------------------------------
(* construct: Struct of Int32sl and Int64ul fields                         *)

RecordSize == 88

\* get_n1_event_format: the fields in wire order
FieldNames == <<"Revision", "RFU1", "Type", "SourcePort", "ChannelNumber", "Code",
                "StartSampleIndex", "StopSampleIndex", "DescriptionLength",
                "DescriptionOffset", "DataLength", "DataOffset",
                "RFU2", "RFU3", "RFU4", "RFU5">>

Int64Fields == {"StartSampleIndex", "StopSampleIndex", "DescriptionLength",
                "DescriptionOffset", "DataLength", "DataOffset"}

FieldWidth(name) == IF name \in Int64Fields THEN 8 ELSE 4

\* byte offset (0-based) of the p-th field
RECURSIVE FieldOffset(_)
FieldOffset(p) == IF p = 1 THEN 0 ELSE FieldOffset(p - 1) + FieldWidth(FieldNames[p - 1])

\* Int32sl.parse: four bytes, little-endian, two's complement
ParseInt32sl(b) ==
    PyInt(b[1] + 256 * b[2] + 65536 * b[3]
          + 16777216 * (IF b[4] >= 128 THEN b[4] - 256 ELSE b[4]))

\* Int64ul.parse: eight bytes, little-endian, unsigned
ParseInt64ul(b) ==
    IF b[4] < 128 /\ \A j \in 5..8 : b[j] = 0
    THEN PyInt(b[1] + 256 * b[2] + 65536 * b[3] + 16777216 * b[4])
    ELSE PyBig(b)

\* Int32sl.build
BuildInt32sl(v) ==
    IF v.k # "int" \/ v.big THEN [err |-> "FormatFieldError", bytes |-> <<>>]
    ELSE [err |-> "none",
          bytes |-> <<v.n % 256, (v.n \div 256) % 256, (v.n \div 65536) % 256,
                      (v.n \div 16777216) % 256>>]

\* Int64ul.build
BuildInt64ul(v) ==
    IF v.k # "int" \/ (~v.big /\ v.n < 0) THEN [err |-> "FormatFieldError", bytes |-> <<>>]
    ELSE IF v.big THEN [err |-> "none", bytes |-> v.digits]
    ELSE [err |-> "none",
          bytes |-> <<v.n % 256, (v.n \div 256) % 256, (v.n \div 65536) % 256,
                      (v.n \div 16777216) % 256, 0, 0, 0, 0>>]

\* format.parse(data): a Container with the fields in wire order
StructParse(data) ==
    IF Len(data) < RecordSize THEN [err |-> "StreamError", val |-> EmptyDict]
    ELSE [err |-> "none",
          val |-> [keys |-> FieldNames,
                   val  |-> [name \in SeqToSet(FieldNames) |->
                               LET p   == IndexOf(FieldNames, name)
                                   off == FieldOffset(p)
                                   b   == SubSeq(data, off + 1, off + FieldWidth(name))
                               IN  IF name \in Int64Fields
                                   THEN ParseInt64ul(b) ELSE ParseInt32sl(b)]]]

BuildField(e, name) ==
    IF name \in Int64Fields THEN BuildInt64ul(e.val[name]) ELSE BuildInt32sl(e.val[name])

RECURSIVE BuildFields(_, _)
BuildFields(e, p) ==
    IF p > Len(FieldNames) THEN <<>>
    ELSE BuildField(e, FieldNames[p]).bytes \o BuildFields(e, p + 1)

\* format.build(e): every field of the Struct must be a key of e
StructBuild(e) ==
    IF \E p \in 1..Len(FieldNames) : ~DictHas(e, FieldNames[p])
    THEN [err |-> "KeyError", bytes |-> <<>>]
    ELSE IF \E p \in 1..Len(FieldNames) : BuildField(e, FieldNames[p]).err # "none"
    THEN [err |-> "FormatFieldError", bytes |-> <<>>]
    ELSE [err |-> "none", bytes |-> BuildFields(e, 1)]

---------------------------------------------------------------------------
(* utilities_neurone.read_neurone_events                                   *)

\* events_dtype: the field names, in order
DtypeNames == <<"Revision", "Type", "SourcePort", "ChannelNumber", "Code",
                "StartSampleIndex", "StopSampleIndex", "DescriptionLength",
                "DescriptionOffset", "DataLength", "DataOffset",
                "StartTime", "StopTime">>

\* events_dtype: the fields declared np.int32 (all others are np.int64)
DtypeInt32 == {"Revision", "Type", "SourcePort", "ChannelNumber", "Code"}

\* numpy's conversion of a Python number to np.int64 / np.int32: a float is
\* truncated, an int of 2^63 or more raises OverflowError
CastInt64(v) ==
    IF v.big /\ v.digits[8] >= 128 THEN [err |-> "OverflowError", val |-> PyInt(0)]
    ELSE [err |-> "none", val |-> [v EXCEPT !.k = "int", !.rem = 0]]

CastInt32(v) ==
    IF v.big THEN [err |-> "OverflowError", val |-> PyInt(0)]
    ELSE [err |-> "none", val |-> [v EXCEPT !.k = "int", !.rem = 0]]

CastField(name, v) == IF name \in DtypeInt32 THEN CastInt32(v) ELSE CastInt64(v)

\* for j in range(5): del events[i]['RFU' + str(j+1)]
RfuNames == <<"RFU1", "RFU2", "RFU3", "RFU4", "RFU5">>

\* del of RFU2..RFU5 only
DelRfusTrailing(e, j) ==
    DictDel(DictDel(DictDel(DictDel(e, "RFU2"), "RFU3"), "RFU4"), "RFU5")

RECURSIVE DelRfus(_, _)
DelRfus(e, j) == IF j > 5 THEN e ELSE DelRfus(DictDel(e, RfuNames[j]), j + 1)

\* the body of `for i in range(n_events)` on the 88 bytes read
DecodeRecord(data, rate) ==
    LET p == StructParse(data)
    IN  IF p.err # "none" THEN [err |-> p.err, val |-> EmptyDict]
        ELSE LET t1 == TrueDiv(p.val.val["StartSampleIndex"], rate)
                 t2 == TrueDiv(p.val.val["StopSampleIndex"], rate)
             IN  IF t1.err # "none" THEN [err |-> t1.err, val |-> EmptyDict]
                 ELSE [err |-> "none",
                       val |-> DelRfus(DictSet(DictSet(p.val, "StartTime", t1.val),
                                               "StopTime", t2.val), 1)]

\* tuple([e[k] for k in keylist]) converted to events_dtype, field by
\* position
RowOf(e, keylist) ==
    IF \E p \in 1..Len(keylist) : ~DictHas(e, keylist[p])
    THEN [err |-> "KeyError", val |-> <<>>]
    ELSE IF Len(keylist) # Len(DtypeNames)
    THEN [err |-> "ValueError", val |-> <<>>]
    ELSE IF \E p \in 1..Len(keylist) : CastField(DtypeNames[p], e.val[keylist[p]]).err # "none"
    THEN [err |-> "OverflowError", val |-> <<>>]
    ELSE [err |-> "none",
          val |-> [name \in SeqToSet(DtypeNames) |->
                     CastField(name, e.val[keylist[IndexOf(DtypeNames, name)]]).val]]

\* keylist = [k for k, v in events[0].items()]; np.array(tmp, dtype)
ToStructuredArray(evs) ==
    IF evs = <<>> THEN [err |-> "IndexError", val |-> <<>>]
    ELSE LET keylist == evs[1].keys
             rows    == [i \in 1..Len(evs) |-> RowOf(evs[i], keylist)]
         IN  IF \E i \in 1..Len(evs) : rows[i].err # "none"
             THEN [err |-> rows[CHOOSE i \in 1..Len(evs) :
                                  /\ rows[i].err # "none"
                                  /\ \A j \in 1..(i - 1) : rows[j].err = "none"].err,
                   val |-> <<>>]
             ELSE [err |-> "none", val |-> [i \in 1..Len(evs) |-> rows[i].val]]

---------------------------------------------------------------------------
(* SpecCodec                                                               *)

MaxEvents == 2      \* whole records in events.bin

\* an event as its 16 field values, in wire order
MkEvent(vals) ==
    [keys |-> FieldNames,
     val  |-> [name \in SeqToSet(FieldNames) |-> vals[IndexOf(FieldNames, name)]]]

\* the example of write_neurone_events' docstring, reserved fields zero
Event1 == MkEvent(<<PyInt(5), PyInt(0), PyInt(4), PyInt(3), PyInt(0), PyInt(2),
                    PyInt(224042), PyInt(224042), PyInt(0), PyInt(0), PyInt(0), PyInt(0),
                    PyInt(0), PyInt(0), PyInt(0), PyInt(0)>>)

\* a negative code, sample indices that are multiples of the rates, and
\* every reserved field in use
Event2 == MkEvent(<<PyInt(5), PyInt(7), PyInt(4), PyInt(3), PyInt(1), PyInt(-1),
                    PyInt(2000), PyInt(3000), PyInt(12), PyInt(256), PyInt(0), PyInt(65536),
                    PyInt(1), PyInt(2), PyInt(3), PyInt(-4)>>)

\* a start index of 2^63
Event3 == MkEvent(<<PyInt(5), PyInt(0), PyInt(4), PyInt(3), PyInt(0), PyInt(2),
                    PyBig(<<0, 0, 0, 0, 0, 0, 0, 128>>), PyInt(224042), PyInt(0), PyInt(0),
                    PyInt(0), PyInt(0), PyInt(0), PyInt(0), PyInt(0), PyInt(0)>>)

WireRecords == {StructBuild(e).bytes : e \in {Event1, Event2, Event3}}

\* lengths of a trailing partial record
TrailLens == {0, 1, 87}

RECURSIVE Flatten(_)
Flatten(ss) == IF ss = <<>> THEN <<>> ELSE Head(ss) \o Flatten(Tail(ss))

Streams == {Flatten(rs) \o SubSeq(tr, 1, t) :
              rs \in UNION {[1..n -> WireRecords] : n \in 0..MaxEvents},
              tr \in WireRecords, t \in TrailLens}

Rates == {100, 1000, 0}

\* events handed to write_neurone_events directly: the docstring's event
\* (no RFU key) and a parsed record (every key present)
DocEvent ==
    LET names == SelectSeq(FieldNames, LAMBDA k : ~Contains(RfuNames, k))
    IN  [keys |-> names, val |-> [name \in SeqToSet(names) |-> Event1.val[name]]]

EncInputs == {<<>>, <<DocEvent>>, <<Event2>>, <<Event2, Event1>>}

InitCodec ==
    /\ \/ /\ stream \in Streams
          /\ sampling_rate \in Rates
          /\ c_pc = "start"
          /\ enc_events = <<>>
          /\ enc_pc = "idle"
       \/ /\ stream = <<>>
          /\ sampling_rate = 0
          /\ c_pc = "off"
          /\ enc_events \in EncInputs
          /\ enc_pc = "call"
    /\ n_events = 0
    /\ c_i = 0
    /\ events = <<>>
    /\ table = <<>>
    /\ c_err = "none"
    /\ enc_i = 0
    /\ enc_j = 0
    /\ out_file = <<>>
    /\ enc_err = "none"
    /\ ChannelsIdle
    /\ WriterIdle
    /\ ExportIdle
    /\ JobIdle

encVars == <<enc_events, enc_pc, enc_i, enc_j, out_file, enc_err>>

\* n_events = int(f_info / 88); events = [''] * n_events; open(fname, 'rb')
DecodeOpen ==
    /\ c_pc = "start"
    /\ n_events' = Len(stream) \div RecordSize
    /\ c_i' = 0
    /\ c_pc' = "read"
    /\ UNCHANGED <<stream, sampling_rate, events, table, c_err, encVars,
                   chanVars, writerVars, exportVars, jobVars>>

\* one iteration of `for i in range(n_events)`
DecodeStep ==
    /\ c_pc = "read"
    /\ c_i < n_events
    /\ LET data == SubSeq(stream, c_i * RecordSize + 1, (c_i + 1) * RecordSize)
           r    == DecodeRecord(data, sampling_rate)
       IN  /\ c_err' = r.err
           /\ c_pc' = IF r.err = "none" THEN "read" ELSE "raised"
           /\ events' = IF r.err = "none" THEN Append(events, r.val) ELSE events
           /\ c_i' = IF r.err = "none" THEN c_i + 1 ELSE c_i
    /\ UNCHANGED <<stream, sampling_rate, n_events, table, encVars,
                   chanVars, writerVars, exportVars, jobVars>>

\* the loop is exhausted: the structured array is built and returned
DecodeArray ==
    /\ c_pc = "read"
    /\ c_i >= n_events
    /\ LET a == ToStructuredArray(events)
       IN  /\ c_err' = a.err
           /\ c_pc' = IF a.err = "none" THEN "decoded" ELSE "raised"
           /\ table' = a.val
    /\ UNCHANGED <<stream, sampling_rate, n_events, c_i, events, encVars,
                   chanVars, writerVars, exportVars, jobVars>>

\* the caller of the round trip: each row of the table as a dict without
\* the two derived time fields
ProjectRow(row) ==
    LET names == SelectSeq(DtypeNames, LAMBDA k : k \notin {"StartTime", "StopTime"})
    IN  [keys |-> names, val |-> [name \in SeqToSet(names) |-> row[name]]]

RoundTripCall ==
    /\ c_pc = "decoded"
    /\ enc_pc = "idle"
    /\ enc_events' = [i \in 1..Len(table) |-> ProjectRow(table[i])]
    /\ enc_pc' = "call"
    /\ UNCHANGED <<stream, sampling_rate, c_pc, n_events, c_i, events, table, c_err,
                   enc_i, enc_j, out_file, enc_err, chanVars, writerVars, exportVars, jobVars>>

\* write_neurone_events is entered: open(fname, 'wb') empties the file
EncodeOpen ==
    /\ enc_pc = "call"
    /\ out_file' = <<>>
    /\ enc_i' = 1
    /\ enc_j' = 0
    /\ enc_pc' = "loop"
    /\ UNCHANGED <<stream, sampling_rate, c_pc, n_events, c_i, events, table, c_err,
                   enc_events, enc_err, chanVars, writerVars, exportVars, jobVars>>

\* one iteration of `for j in range(5)`: the RFU key is set and the event
\* is built and written
EncodeStep ==
    /\ enc_pc = "loop"
    /\ enc_i <= Len(enc_events)
    /\ LET e == DictSet(enc_events[enc_i], RfuNames[enc_j + 1], PyInt(0))
           b == StructBuild(e)
       IN  /\ enc_events' = [enc_events EXCEPT ![enc_i] = e]
           /\ enc_err' = b.err
           /\ IF b.err = "none"
              THEN /\ out_file' = out_file \o b.bytes
                   /\ enc_pc' = "loop"
                   /\ enc_i' = IF enc_j = 4 THEN enc_i + 1 ELSE enc_i
                   /\ enc_j' = IF enc_j = 4 THEN 0 ELSE enc_j + 1
              ELSE /\ enc_pc' = "raised"
                   /\ UNCHANGED <<out_file, enc_i, enc_j>>
    /\ UNCHANGED <<stream, sampling_rate, c_pc, n_events, c_i, events, table, c_err,
                   chanVars, writerVars, exportVars, jobVars>>

\* the loop over the events is exhausted: the file is closed
EncodeClose ==
    /\ enc_pc = "loop"
    /\ enc_i > Len(enc_events)
    /\ enc_pc' = "closed"
    /\ UNCHANGED <<stream, sampling_rate, c_pc, n_events, c_i, events, table, c_err,
                   enc_events, enc_i, enc_j, out_file, enc_err, chanVars, writerVars, exportVars, jobVars>>

NextCodec ==
    \/ DecodeOpen \/ DecodeStep \/ DecodeArray
    \/ RoundTripCall \/ EncodeOpen \/ EncodeStep \/ EncodeClose

SpecCodec == InitCodec /\ [][NextCodec]_vars

---------------------------------------------------------------------------
(* Properties of the event codec                                           *)

\* the i-th 88-byte slot of the stream (1-based)
Slot(i) == SubSeq(stream, (i - 1) * RecordSize + 1, i * RecordSize)

DecodeEnded == c_pc \in {"decoded", "raised"}

\* C8: for a stream whose length is not a multiple of 88, decode never
\* returns an Event Table (it fails instead of decoding the leading whole
\* records and ignoring the trailing bytes).
C8_TruncatedStreamFails ==
    (Len(stream) % RecordSize # 0) => c_pc # "decoded"

\* every 8-byte field of every whole record is below 2^63
FitsInt64 ==
    \A i \in 1..(Len(stream) \div RecordSize) :
        \A name \in Int64Fields :
            LET v == StructParse(Slot(i)).val.val[name]
            IN  v.big => v.digits[8] < 128

\* the stored time t equals index / rate
IsQuotient(t, index, rate) == ~t.big /\ ~index.big /\ t.n * rate = index.n

\* C9: for a stream of k >= 1 whole records (8-byte fields below 2^63) and
\* a positive sampling rate, decode returns a table of k rows in stream
\* order whose start_time and stop_time equal the row's sample indices
\* divided by the rate.
C9_EventTimes ==
    (/\ DecodeEnded
     /\ Len(stream) % RecordSize = 0
     /\ Len(stream) > 0
     /\ sampling_rate > 0
     /\ FitsInt64)
    => /\ c_pc = "decoded"
       /\ Len(table) = Len(stream) \div RecordSize
       /\ \A i \in 1..Len(table) :
            LET wire == StructParse(Slot(i)).val
            IN  /\ table[i]["StartSampleIndex"] = wire.val["StartSampleIndex"]
                /\ table[i]["StopSampleIndex"] = wire.val["StopSampleIndex"]
                /\ IsQuotient(table[i]["StartTime"], wire.val["StartSampleIndex"],
                              sampling_rate)
                /\ IsQuotient(table[i]["StopTime"], wire.val["StopSampleIndex"],
                              sampling_rate)

\* byte p (1-based) of a stream lies in one of the four trailing reserved
\* fields RFU2..RFU5 of its record
ReservedByte(p) == (p - 1) % RecordSize >= FieldOffset(13)

\* C10: when a decoded stream of 88k bytes has been projected and handed to
\* write_neurone_events, the file written has the length of the stream and
\* equals it in every byte outside the reserved fields.
C10_RoundTrip ==
    (/\ c_pc = "decoded"
     /\ Len(stream) % RecordSize = 0
     /\ enc_pc \in {"closed", "raised"})
    => /\ enc_pc = "closed"
       /\ Len(out_file) = Len(stream)
       /\ \A p \in 1..Len(stream) : ~ReservedByte(p) => out_file[p] = stream[p]


\* the number of whole 88-byte slots of the stream
NSlots == Len(stream) \div RecordSize

EncodeEnded == enc_pc \in {"closed", "raised"}

\* the bytes build gives for field `name` of event e, with zero for a
\* reserved field
ExpectedField(e, name) ==
    IF Contains(RfuNames, name) THEN <<0, 0, 0, 0>> ELSE BuildField(e, name).bytes

RECURSIVE ExpectedRecord(_, _)
ExpectedRecord(e, p) ==
    IF p > Len(FieldNames) THEN <<>>
    ELSE ExpectedField(e, FieldNames[p]) \o ExpectedRecord(e, p + 1)

\* C11: when write_neurone_events has ended on n events, it has ended
\* normally and the file holds exactly n records of 88 bytes, the i-th
\* being the i-th event's named fields with every reserved field zero.
C11_OneRecordPerEvent ==
    EncodeEnded
    => /\ enc_pc = "closed"
       /\ Len(out_file) = RecordSize * Len(enc_events)
       /\ \A i \in 1..Len(enc_events) :
            SubSeq(out_file, (i - 1) * RecordSize + 1, i * RecordSize)
              = ExpectedRecord(enc_events[i], 1)

\* Python's ArithmeticError family
ArithmeticErrors == {"ZeroDivisionError", "OverflowError", "FloatingPointError"}

\* C12: a decode with sampling rate zero ends in an error that is not a
\* generic arithmetic error, without any time field having been derived.
C12_ZeroRateRejected ==
    (DecodeEnded /\ sampling_rate = 0)
    => /\ c_pc = "raised"
       /\ c_err \notin ArithmeticErrors
       /\ events = <<>>

\* slot i cannot be turned into a row: the rate is zero or an 8-byte field
\* does not fit the table's np.int64
Undecodable(i) ==
    \/ sampling_rate = 0
    \/ \E name \in Int64Fields :
          LET v == StructParse(Slot(i)).val.val[name]
          IN  v.big /\ v.digits[8] >= 128

FirstUndecodable ==
    CHOOSE i \in 1..NSlots : Undecodable(i) /\ \A j \in 1..(i - 1) : ~Undecodable(j)

\* C13: when decode fails on slot i, the caller still holds the rows of the
\* slots before i.
C13_PrecedingRecordsKept ==
    (c_pc = "raised" /\ \E i \in 1..NSlots : Undecodable(i))
    => /\ Len(table) = FirstUndecodable - 1
       /\ \A j \in 1..Len(table) :
            \A name \in SeqToSet(DtypeNames) \ {"StartTime", "StopTime"} :
               table[j][name] = StructParse(Slot(j)).val.val[name]

\* the named fields of the wire layout: all but the four trailing reserved
\* fields
NamedFields == SelectSeq(FieldNames, LAMBDA k : k \notin {"RFU2", "RFU3", "RFU4", "RFU5"})

\* C14 (as stated): every row of a decoded table holds exactly the named
\* wire fields, rfu1 included, and the two derived time fields.
C14_KeepsRfu1 ==
    c_pc = "decoded"
    => \A i \in 1..Len(table) :
          DOMAIN table[i] = SeqToSet(NamedFields) \cup {"StartTime", "StopTime"}

\* C14 (amended): the decoded representation drops all five reserved
\* fields, RFU1 and the four trailing ones: every decoded event has exactly
\* the keys of events_dtype, in that order, each wire field among them
\* with its parsed value, and every row of a returned table has exactly
\* those fields.
C14_DropsAllRfus ==
    /\ \A i \in 1..Len(events) :
          /\ events[i].keys = DtypeNames
          /\ \A name \in SeqToSet(DtypeNames) \ {"StartTime", "StopTime"} :
                events[i].val[name] = StructParse(Slot(i)).val.val[name]
    /\ c_pc = "decoded"
       => \A i \in 1..Len(table) : DOMAIN table[i] = SeqToSet(DtypeNames)

C14_Witness ==
    /\ c_pc = "decoded"
    /\ Len(table) = 2
    /\ StructParse(Slot(1)).val.val["RFU1"] # PyInt(0)
    /\ StructParse(Slot(1)).val.val["RFU5"] # PyInt(0)
    /\ "RFU1" \notin DOMAIN table[1]

\* C15: a decode of k >= 1 whole records with a positive rate returns a
\* table whose 4-byte fields equal the signed and whose 8-byte fields equal
\* the unsigned wire values, values of 2^63 and more included.
C15_UnsignedPreserved ==
    (DecodeEnded /\ Len(stream) % RecordSize = 0 /\ Len(stream) > 0 /\ sampling_rate > 0)
    => /\ c_pc = "decoded"
       /\ Len(table) = NSlots
       /\ \A i \in 1..Len(table) :
            \A name \in SeqToSet(DtypeNames) \ {"StartTime", "StopTime"} :
               table[i][name] = StructParse(Slot(i)).val.val[name]

\* C28: decode of the empty stream with a positive rate returns a table of
\* zero rows without raising.
C28_EmptyStreamDecodes ==
    (DecodeEnded /\ Len(stream) = 0 /\ sampling_rate > 0)
    => /\ c_pc = "decoded"
       /\ c_err = "none"
       /\ table = <<>>


---------------------------------------------------------------------------
(* utilities_h5.add_metadata_h5                                            *)

\* for attr in group["info"].keys():
\*     obj = get_group(fid, path_tmp); obj.attrs[attr] = group["info"][attr]
RECURSIVE MetaAttrs(_, _, _, _)
MetaAttrs(f, path_tmp, info, keys) ==
    IF keys = <<>> THEN [err |-> "none", f |-> f]
    ELSE LET g == get_group(f, path_tmp)
         IN  IF g.err # "none" THEN [err |-> g.err, f |-> f]
             ELSE MetaAttrs([g.f EXCEPT ![path_tmp].attrs =
                                AttrSet(@, Head(keys), info.val[Head(keys)])],
                            path_tmp, info, Tail(keys))

\* mutant of MetaChannels: the attributes set on the object at path itself
RECURSIVE MetaChannelsOnPath(_, _, _, _)
MetaChannelsOnPath(f, path, info, chs) ==
    IF chs = <<>> THEN [err |-> "none", f |-> f]
    ELSE LET r == MetaAttrs(f, path, info, info.keys)
         IN  IF r.err # "none" THEN r
             ELSE MetaChannelsOnPath(r.f, path, info, Tail(chs))

\* for channel in group["channels"]: path_tmp = path + "/" + channel ...
RECURSIVE MetaChannels(_, _, _, _)
MetaChannels(f, path, info, chs) ==
    IF chs = <<>> THEN [err |-> "none", f |-> f]
    ELSE LET r == MetaAttrs(f, Append(path, Head(chs)), info, info.keys)
         IN  IF r.err # "none" THEN r
             ELSE MetaChannels(r.f, path, info, Tail(chs))

\* for group in meta: if ["*"] == group["channels"]: group["channels"] = channels
RECURSIVE MetaGroups(_, _, _, _, _)
MetaGroups(f, path, meta, k, channels) ==
    IF k > Len(meta) THEN [err |-> "none", f |-> f, meta |-> meta]
    ELSE LET chs == IF meta[k].channels = <<"*">> THEN channels ELSE meta[k].channels
             m1  == [meta EXCEPT ![k].channels = chs]
             r   == MetaChannels(f, path, meta[k].info, chs)
         IN  IF r.err # "none" THEN [err |-> r.err, f |-> r.f, meta |-> m1]
             ELSE MetaGroups(r.f, path, m1, k + 1, channels)

add_metadata_h5(f, path, meta, channels) == MetaGroups(f, path, meta, 1, channels)

---------------------------------------------------------------------------
(* export_hdf5.export_hdf5_signal                                          *)

\* mutant of ExpandChannels: the test for the wildcard dropped
ExpandChannelsAlways(channels, data) ==
    get_channels_in_set([isList |-> TRUE, items |-> data, item |-> <<>>])

\* if dset_map["channels"] == ["*"]:
\*     dset_map["channels"] = utils.get_channels_in_set(data)
ExpandChannels(channels, data) ==
    IF channels = <<"*">>
    THEN get_channels_in_set([isList |-> TRUE, items |-> data, item |-> <<>>])
    ELSE [err |-> "none", val |-> channels]

---------------------------------------------------------------------------
(* SpecExport: the mappings of one signal source, one after the other      *)

MaxMaps == 2        \* mappings of the source

\* a dict of numbers with the given keys
Info(keys, vals) ==
    [keys |-> keys, val |-> [k \in SeqToSet(keys) |-> Num(vals[IndexOf(keys, k)])]]

\* the "meta" of a mapping: none; an explicit group followed by a wildcard
\* group that sets the same key again; a wildcard group followed by an
\* explicit one
NoMeta == <<>>

MetaExplicitFirst ==
    <<[channels |-> <<"a">>, info |-> Info(<<"unit">>, <<1>>)],
      [channels |-> <<"*">>, info |-> Info(<<"unit", "gain">>, <<2, 3>>)]>>

MetaWildcardFirst ==
    <<[channels |-> <<"*">>, info |-> Info(<<"unit">>, <<1>>)],
      [channels |-> <<"b">>, info |-> Info(<<"gain">>, <<3>>)]>>

MapOptions ==
    {[path |-> p, channels |-> c, shared_group |-> sh, hasMeta |-> m # NoMeta, meta |-> m] :
        p \in Paths, c \in {<<"*">>, <<"a">>, <<"a", "b">>}, sh \in BOOLEAN,
        m \in {NoMeta, MetaExplicitFirst, MetaWildcardFirst}}

\* what a reader returned: two single-channel records on one axis, one
\* two-channel record, one single-channel record, a record whose channel
\* is named like the wildcard, nothing
XDatasets ==
    { <<MkRecord(<<"a", "time">>, <<0, 1>>, 2, Meta1),
        MkRecord(<<"time", "b">>, <<0, 1>>, 2, Meta2)>>,
      <<MkRecord(<<"a", "b", "time">>, <<0, 1>>, 2, Meta1)>>,
      <<MkRecord(<<"a", "time">>, <<0, 1>>, 2, Meta1)>>,
      <<MkRecord(<<"*", "time">>, <<0, 1>>, 2, Meta1)>>,
      <<>> }

InitExport ==
    /\ dataset \in XDatasets
    /\ fid = EmptyFile
    /\ fid_pre = EmptyFile
    /\ w_call = [path |-> <<>>, channels |-> <<>>, shared |-> TRUE]
    /\ w_pc = "idle"
    /\ w_i = 0
    /\ timevector_added = FALSE
    /\ metadata_added = FALSE
    /\ w_err = "none"
    /\ ncalls = 0
    /\ x_cfg = <<>>
    /\ x_maps = <<>>
    /\ x_pc = "next"
    /\ x_err = "none"
    /\ ChannelsIdle
    /\ CodecIdle
    /\ JobIdle

\* the mapping being processed
CurMap == x_maps[Len(x_maps)]

\* `for dset_map in dataset["maps"]` takes the next mapping and expands its
\* channels
ExportNextMap ==
    /\ x_pc = "next"
    /\ Len(x_maps) < MaxMaps
    /\ \E m \in MapOptions :
          LET e == ExpandChannels(m.channels, dataset)
          IN  /\ x_cfg' = Append(x_cfg, m)
              /\ x_maps' = Append(x_maps, IF e.err = "none"
                                          THEN [m EXCEPT !.channels = e.val] ELSE m)
              /\ x_pc' = IF e.err = "none" THEN "add_data" ELSE "raised"
              /\ x_err' = e.err
    /\ UNCHANGED <<writerVars, chanVars, codecVars, jobVars>>

\* h5utils.add_data_h5(fid, path, data, channels, shared_group=...) is called
ExportAddData ==
    /\ x_pc = "add_data"
    /\ AddDataEnter(CurMap.path, CurMap.channels, CurMap.shared_group)
    /\ x_pc' = "writing"
    /\ UNCHANGED <<x_cfg, x_maps, x_err, chanVars, codecVars, jobVars>>

\* an exception of add_data_h5 leaves export_hdf5_signal
ExportRaise ==
    /\ x_pc = "writing"
    /\ w_pc = "raised"
    /\ x_pc' = "raised"
    /\ x_err' = w_err
    /\ UNCHANGED <<x_cfg, x_maps, writerVars, chanVars, codecVars, jobVars>>

\* add_data_h5 has returned: if "meta" in dset_map.keys(): add_metadata_h5(...)
ExportMeta ==
    /\ x_pc = "writing"
    /\ w_pc = "returned"
    /\ IF CurMap.hasMeta
       THEN LET r == add_metadata_h5(fid, CurMap.path, CurMap.meta, CurMap.channels)
            IN  /\ fid' = r.f
                /\ x_maps' = [x_maps EXCEPT ![Len(x_maps)].meta = r.meta]
                /\ x_pc' = IF r.err = "none" THEN "next" ELSE "raised"
                /\ x_err' = r.err
       ELSE /\ x_pc' = "next"
            /\ UNCHANGED <<fid, x_maps, x_err>>
    /\ UNCHANGED <<x_cfg, dataset, fid_pre, w_call, w_pc, w_i, timevector_added,
                   metadata_added, w_err, ncalls, chanVars, codecVars, jobVars>>

\* the mappings are exhausted: export_hdf5_signal returns
ExportReturn ==
    /\ x_pc = "next"
    /\ x_pc' = "done"
    /\ UNCHANGED <<x_cfg, x_maps, x_err, writerVars, chanVars, codecVars, jobVars>>

NextExport ==
    \/ ExportNextMap \/ ExportAddData \/ AddDataStep \/ AddDataReturn
    \/ ExportRaise \/ ExportMeta \/ ExportReturn

SpecExport == InitExport /\ [][NextExport]_vars


---------------------------------------------------------------------------
(* Properties of export_hdf5_signal                                        *)

\* the expansion of mapping k did not raise
Expanded(k) == ExpandChannels(x_cfg[k].channels, dataset).err = "none"

\* C16: a mapping configured with an explicit channel list keeps that list
\* through the expansion step, and applying the expansion step again to
\* the channels of any mapping that has passed it gives the same list.
C16_ExpansionIdempotent ==
    \A k \in 1..Len(x_maps) :
        Expanded(k)
        => /\ x_cfg[k].channels # <<"*">> => x_maps[k].channels = x_cfg[k].channels
           /\ ExpandChannels(x_maps[k].channels, dataset)
                = [err |-> "none", val |-> x_maps[k].channels]

\* a wildcard mapping expanded to two names, then an explicit mapping
C16_Witness ==
    /\ Len(x_maps) = 2
    /\ x_pc = "add_data"
    /\ x_cfg[1].channels = <<"*">>
    /\ x_maps[1].channels = <<"a", "b">>
    /\ x_cfg[2].channels = <<"a">>
    /\ x_maps[2].channels = <<"a">>

\* a wildcard mapping expanded to the one channel named "*"
C16_WitnessStar ==
    /\ Len(x_maps) = 1
    /\ x_pc = "add_data"
    /\ x_cfg[1].channels = <<"*">>
    /\ x_maps[1].channels = <<"*">>
    /\ dataset # <<>>

\* add_metadata_h5 has just returned for the current mapping
MetaWritten == x_pc = "next" /\ Len(x_maps) >= 1 /\ CurMap.hasMeta

\* the metadata groups of the current mapping as configured
CfgMeta == x_cfg[Len(x_cfg)].meta

\* the channel set of metadata group g
GroupChannels(g) ==
    IF CfgMeta[g].channels = <<"*">> THEN CurMap.channels ELSE CfgMeta[g].channels

\* group g attaches key a to channel c
Attaches(g, c, a) == Contains(GroupChannels(g), c) /\ DictHas(CfgMeta[g].info, a)

\* C18 (as stated): after add_metadata_h5, for every metadata group, every
\* channel of its channel set and every key of its info, the object at
\* path/channel carries the key with the value of that group.
C18_EveryGroupValue ==
    MetaWritten
    => \A g \in 1..Len(CfgMeta) :
         \A c \in SeqToSet(GroupChannels(g)) :
           \A a \in SeqToSet(CfgMeta[g].info.keys) :
              /\ Append(CurMap.path, c) \in DOMAIN fid
              /\ <<a, CfgMeta[g].info.val[a]>> \in fid[Append(CurMap.path, c)].attrs

\* C18 (amended): after add_metadata_h5, for every metadata group, every
\* channel of its channel set and every key of its info, the object at
\* path/channel carries the key, with the value given by the last group in
\* list order that attaches that key to that channel.
C18_LastGroupValue ==
    MetaWritten
    => \A g \in 1..Len(CfgMeta) :
         \A c \in SeqToSet(GroupChannels(g)) :
           \A a \in SeqToSet(CfgMeta[g].info.keys) :
              LET last == CHOOSE h \in g..Len(CfgMeta) :
                             /\ Attaches(h, c, a)
                             /\ \A j \in (h + 1)..Len(CfgMeta) : ~Attaches(j, c, a)
              IN  /\ Append(CurMap.path, c) \in DOMAIN fid
                  /\ <<a, CfgMeta[last].info.val[a]>> \in fid[Append(CurMap.path, c)].attrs
                  /\ \A v \in {Num(n) : n \in 0..3} :
                        <<a, v>> \in fid[Append(CurMap.path, c)].attrs
                        => v = CfgMeta[last].info.val[a]

\* an explicit group and a wildcard group that both set "unit" on channel
\* a, the wildcard standing for two channels
C18_Witness ==
    /\ MetaWritten
    /\ CfgMeta = MetaExplicitFirst
    /\ CurMap.channels = <<"a", "b">>
    /\ <<"unit", Num(2)>> \in fid[Append(CurMap.path, "a")].attrs
    /\ <<"gain", Num(3)>> \in fid[Append(CurMap.path, "b")].attrs

\* the channel set get_channels_in_set resolves for the dataset
ResolvedSet == SeqToSet(FlatKeys(dataset)) \ {"time"}

\* C20: export_hdf5_signal never returns normally when one of its mappings
\* requested a channel that is not in the dataset's resolved channel set.
C20_MissingChannelAborts ==
    x_pc = "done"
    => \A k \in 1..Len(x_maps) : SeqToSet(x_maps[k].channels) \subseteq ResolvedSet


LeafPlaceTaken ==
    /\ w_pc = "loop"
    /\ w_i <= Len(dataset)
    /\ FirstChannel(dataset[w_i]).err = "none"
    /\ Requested(NameOf(dataset[w_i]), w_call.channels)
    /\ ~H5CanCreate(fid, DataLeafPath(NameOf(dataset[w_i])))

---------------------------------------------------------------------------
(* utilities_h5: add_data_h5 as one call, init_h5, close_h5, and the two   *)
(* writers export_hdf5.py calls that utilities_h5.py does not define       *)

\* `for i in dataset` from record k on; metadata_added stays False
RECURSIVE AddDataLoop(_, _, _, _, _)
AddDataLoop(f, call, ds, k, tv) ==
    IF k > Len(ds) THEN [err |-> "none", f |-> f]
    ELSE LET r == IF call.shared
                  THEN SharedStep(f, call, ds[k], tv, FALSE)
                  ELSE PrivateStep(f, call, ds[k]) @@ [tv |-> tv]
         IN  IF r.err # "none" THEN [err |-> r.err, f |-> r.f]
             ELSE AddDataLoop(r.f, call, ds, k + 1, r.tv)

add_data_h5(f, path, ds, channels, shared) ==
    LET g    == IF shared THEN get_group(f, path) ELSE [err |-> "none", f |-> f]
        call == [path |-> path, channels |-> channels, shared |-> shared]
    IN  IF g.err # "none" THEN [err |-> g.err, f |-> g.f]
        ELSE AddDataLoop(g.f, call, ds, 1, FALSE)

\* mutant of init_h5: the file opened for appending
init_h5Append(disk, f) ==
    [disk |-> IF disk = "absent" THEN "new" ELSE disk, f |-> f, handle |-> "open"]

\* h5py.File(fname, "w"): the file is created or truncated and opened
init_h5(disk, f) == [disk |-> "new", f |-> EmptyFile, handle |-> "open"]

\* fid.close(); export_hdf5.py never calls it
close_h5(handle) == "closed"

\* h5utils.add_events_h5(fid, path, data=..., dtype=...): one leaf at path
add_events_h5(f, path, data, dtype) == create_dataset(f, path, data)

\* h5utils.add_text_h5(fid, path, data=...): one leaf at path
add_text_h5(f, path, data) == create_dataset(f, path, data)

\* h5utils.add_metadata_h5(fid, path, meta): the fourth parameter,
\* channels, has no default
add_metadata_h5_NoChannels(f, path, meta) == [err |-> "TypeError", f |-> f]

---------------------------------------------------------------------------
(* export_hdf5.export_hdf5 and export2hdf5_cli                             *)

MaxSources == 2     \* entries of config["datasets"]

\* readerlist: the reader_type of three of its sixteen data types
readerlist == [edf |-> "signal", neurone_events |-> "events", text |-> "text"]

\* what the readers return: a Dataset of two records, the decoded table of
\* one event with its dtype, a text
SignalData ==
    <<MkRecord(<<"a", "time">>, <<0, 1>>, 2, Meta1),
      MkRecord(<<"time", "b">>, <<0, 1>>, 2, Meta2)>>

EventsData ==
    [events |-> ToStructuredArray(
                    <<DecodeRecord(StructBuild(Event1).bytes, 100).val>>).val,
     dtype  |-> DtypeNames]

TextData == [text |-> <<"h", "i">>]

ReaderResult(kind) ==
    IF kind = "signal" THEN SignalData
    ELSE IF kind = "events" THEN EventsData
    ELSE TextData

\* a mapping; channels and shared_group are read for signal sources only
Map(path, channels, shared, meta) ==
    [path |-> path, channels |-> channels, shared_group |-> shared,
     hasMeta |-> meta # NoMeta, meta |-> meta]

MetaBlob == <<[channels |-> <<"*">>, info |-> Info(<<"unit">>, <<1>>)]>>

SourceOptions ==
    {[data_type |-> "edf", maps |-> ms] :
        ms \in { <<>>,
                 <<Map(<<"g">>, <<"*">>, TRUE, MetaWildcardFirst)>>,
                 <<Map(<<"g">>, <<"a">>, TRUE, NoMeta),
                   Map(<<"h">>, <<"*">>, FALSE, MetaExplicitFirst)>> }}
    \cup {[data_type |-> "neurone_events", maps |-> ms] :
        ms \in { <<Map(<<"ev">>, <<>>, FALSE, NoMeta)>>,
                 <<Map(<<"ev">>, <<>>, FALSE, MetaBlob)>> }}
    \cup {[data_type |-> "text", maps |-> ms] :
        ms \in { <<Map(<<"txt">>, <<>>, FALSE, NoMeta)>>,
                 <<Map(<<"txt">>, <<>>, FALSE, MetaBlob),
                   Map(<<"txt2">>, <<>>, FALSE, NoMeta)>> }}
    \cup {[data_type |-> "csv", maps |-> <<>>]}

Configs ==
    {[hasOutput |-> o, datasets |-> ds] :
        o \in BOOLEAN,
        ds \in UNION {[1..n -> SourceOptions] : n \in 0..MaxSources}}

NoConfig == [hasOutput |-> FALSE, datasets |-> <<>>]

\* the job-description file: malformed JSON, or JSON that jsonschema
\* accepts or rejects; a description without "output" is rejected
CfgFiles ==
    {[json_ok |-> FALSE, schema_ok |-> FALSE, config |-> NoConfig]}
    \cup {[json_ok |-> TRUE, schema_ok |-> v, config |-> c] :
            v \in BOOLEAN, c \in {x \in Configs : x.hasOutput}}
    \cup {[json_ok |-> TRUE, schema_ok |-> FALSE, config |-> c] :
            c \in {x \in Configs : ~x.hasOutput}}

\* a container left at the output path by an earlier run
OldFile == H5Create(EmptyFile, <<"old">>, Leaf(<<1>>))

InitJob ==
    /\ \/ /\ cli_args \in [config_file : {"none", "missing"}, validate_only : BOOLEAN]
          /\ cfg_file = [json_ok |-> FALSE, schema_ok |-> FALSE, config |-> NoConfig]
       \/ /\ cli_args \in [config_file : {"file"}, validate_only : BOOLEAN]
          /\ cfg_file \in CfgFiles
    /\ j_disk \in {"absent", "old"}
    /\ fid = IF j_disk = "old" THEN OldFile ELSE EmptyFile
    /\ j_pc = "cli_start"
    /\ j_res = "unset"
    /\ exit_status = -1
    /\ j_config = NoConfig
    /\ j_handle = "none"
    /\ j_k = 0
    /\ j_m = 0
    /\ j_data = <<>>
    /\ j_log = <<>>
    /\ j_err = "none"
    /\ dataset = <<>>
    /\ fid_pre = <<>>
    /\ w_call = <<>>
    /\ w_pc = "idle"
    /\ w_i = 0
    /\ timevector_added = FALSE
    /\ metadata_added = FALSE
    /\ w_err = "none"
    /\ ncalls = 0
    /\ ChannelsIdle
    /\ CodecIdle
    /\ ExportIdle


\* what no step of the job touches
jobFrame == <<chanVars, codecVars, exportVars, dataset, fid_pre, w_call, w_pc, w_i,
              timevector_added, metadata_added, w_err, ncalls, cli_args, cfg_file>>

\* sys.exit(status)
SysExit(status) ==
    /\ j_pc' = "exited"
    /\ exit_status' = status
    /\ UNCHANGED j_err

\* an exception nothing catches ends the process with status 1
Raise(err) ==
    /\ j_pc' = "exited"
    /\ exit_status' = 1
    /\ j_err' = err

Continue(pc) ==
    /\ j_pc' = pc
    /\ UNCHANGED <<exit_status, j_err>>

\* mutant of NextIndex: the loop steps over an element
NextIndexSkip(i) == i + 2

\* a for loop moves to its next element
NextIndex(i) == i + 1

\* if args.config_file is None: sys.exit(1)
CliParse ==
    /\ j_pc = "cli_start"
    /\ IF cli_args.config_file = "none" THEN SysExit(1) ELSE Continue("cli_isfile")
    /\ UNCHANGED <<j_res, j_config, j_disk, j_handle, j_k, j_m, j_data, j_log, fid,
                   jobFrame>>

\* if not os.path.isfile(args.config_file): sys.exit(1)
CliIsFile ==
    /\ j_pc = "cli_isfile"
    /\ IF cli_args.config_file = "missing" THEN SysExit(1) ELSE Continue("cli_validate")
    /\ UNCHANGED <<j_res, j_config, j_disk, j_handle, j_k, j_m, j_data, j_log, fid,
                   jobFrame>>

\* res = validate_config(args.config_file): load_json_file exits with 1 on
\* malformed JSON; otherwise res is None or the validation error
CliValidate ==
    /\ j_pc = "cli_validate"
    /\ IF ~cfg_file.json_ok
       THEN SysExit(1) /\ UNCHANGED j_res
       ELSE /\ Continue("cli_mode")
            /\ j_res' = IF cfg_file.schema_ok THEN "None" ELSE "message"
    /\ UNCHANGED <<j_config, j_disk, j_handle, j_k, j_m, j_data, j_log, fid, jobFrame>>

\* if args.validate_only: ... sys.exit(0)
CliValidateOnly ==
    /\ j_pc = "cli_mode"
    /\ cli_args.validate_only
    /\ SysExit(0)
    /\ UNCHANGED <<j_res, j_config, j_disk, j_handle, j_k, j_m, j_data, j_log, fid,
                   jobFrame>>

\* export_hdf5(args.config_file) is called
CliExport ==
    /\ j_pc = "cli_mode"
    /\ ~cli_args.validate_only
    /\ Continue("export_load")
    /\ UNCHANGED <<j_res, j_config, j_disk, j_handle, j_k, j_m, j_data, j_log, fid,
                   jobFrame>>

\* config = load_json_file(fname); fname_out = config["output"]["filename"]
JobLoad ==
    /\ j_pc = "export_load"
    /\ j_config' = cfg_file.config
    /\ IF ~cfg_file.config.hasOutput THEN Raise("KeyError") ELSE Continue("export_init")
    /\ UNCHANGED <<j_res, j_disk, j_handle, j_k, j_m, j_data, j_log, fid, jobFrame>>

\* fid = h5utils.init_h5(fname_out); dataset_list = config["datasets"]
JobInit ==
    /\ j_pc = "export_init"
    /\ LET h == init_h5(j_disk, fid)
       IN  /\ j_disk' = h.disk
           /\ fid' = h.f
           /\ j_handle' = h.handle
    /\ j_k' = 1
    /\ Continue("source")
    /\ UNCHANGED <<j_res, j_config, j_m, j_data, j_log, jobFrame>>

\* for dataset in dataset_list:
\*     data = readerlist[dataset["data_type"]]['function'](dataset["filename"])
\* the reader returns or raises
JobRead ==
    /\ j_pc = "source"
    /\ j_k <= Len(j_config.datasets)
    /\ LET src == j_config.datasets[j_k]
       IN  IF src.data_type \notin DOMAIN readerlist
           THEN Raise("KeyError") /\ UNCHANGED <<j_data, j_m, j_log>>
           ELSE /\ j_log' = Append(j_log, <<"read", j_k, 0>>)
                /\ \/ /\ j_data' = ReaderResult(readerlist[src.data_type])
                      /\ j_m' = 1
                      /\ Continue("map")
                   \/ /\ Raise("OSError")
                      /\ UNCHANGED <<j_data, j_m>>
    /\ UNCHANGED <<j_res, j_config, j_disk, j_handle, j_k, fid, jobFrame>>

\* the source and mapping being processed
CurSource == j_config.datasets[j_k]

CurJobMap == CurSource.maps[j_m]

CurKind == readerlist[CurSource.data_type]

\* the data write of one mapping: for a signal source the expansion of the
\* channels and add_data_h5, else add_events_h5 or add_text_h5
JobMapData ==
    /\ j_pc = "map"
    /\ j_m <= Len(CurSource.maps)
    /\ IF CurKind = "signal"
       THEN LET e == ExpandChannels(CurJobMap.channels, j_data)
                r == add_data_h5(fid, CurJobMap.path, j_data, e.val,
                                 CurJobMap.shared_group)
            IN  IF e.err # "none"
                THEN Raise(e.err) /\ UNCHANGED <<j_config, j_log, fid>>
                ELSE /\ j_config' = [j_config EXCEPT
                                       !.datasets[j_k].maps[j_m].channels = e.val]
                     /\ j_log' = Append(j_log, <<"data", j_k, j_m>>)
                     /\ fid' = r.f
                     /\ IF r.err # "none" THEN Raise(r.err) ELSE Continue("meta")
       ELSE LET r == IF CurKind = "events"
                     THEN add_events_h5(fid, CurJobMap.path, j_data.events, j_data.dtype)
                     ELSE add_text_h5(fid, CurJobMap.path, j_data.text)
            IN  /\ j_log' = Append(j_log, <<"data", j_k, j_m>>)
                /\ fid' = r.f
                /\ IF r.err # "none" THEN Raise(r.err) ELSE Continue("meta")
                /\ UNCHANGED j_config
    /\ UNCHANGED <<j_res, j_disk, j_handle, j_k, j_m, j_data, jobFrame>>

\* if "meta" in dset_map.keys(): h5utils.add_metadata_h5(...), with the
\* channels for a signal source and without them otherwise
JobMapMeta ==
    /\ j_pc = "meta"
    /\ IF ~CurJobMap.hasMeta
       THEN /\ Continue("map")
            /\ j_m' = NextIndex(j_m)
            /\ UNCHANGED <<j_config, j_log, fid>>
       ELSE /\ j_log' = Append(j_log, <<"meta", j_k, j_m>>)
            /\ IF CurKind = "signal"
               THEN LET r == add_metadata_h5(fid, CurJobMap.path, CurJobMap.meta,
                                             CurJobMap.channels)
                    IN  /\ fid' = r.f
                        /\ j_config' = [j_config EXCEPT
                                          !.datasets[j_k].maps[j_m].meta = r.meta]
                        /\ IF r.err # "none"
                           THEN Raise(r.err) /\ UNCHANGED j_m
                           ELSE Continue("map") /\ j_m' = NextIndex(j_m)
               ELSE LET r == add_metadata_h5_NoChannels(fid, CurJobMap.path,
                                                        CurJobMap.meta)
                    IN  /\ fid' = r.f
                        /\ UNCHANGED j_config
                        /\ IF r.err # "none"
                           THEN Raise(r.err) /\ UNCHANGED j_m
                           ELSE Continue("map") /\ j_m' = NextIndex(j_m)
    /\ UNCHANGED <<j_res, j_disk, j_handle, j_k, j_data, jobFrame>>

\* the mappings of the source are exhausted
JobNextSource ==
    /\ j_pc = "map"
    /\ j_m > Len(CurSource.maps)
    /\ j_k' = NextIndex(j_k)
    /\ Continue("source")
    /\ UNCHANGED <<j_res, j_config, j_disk, j_handle, j_m, j_data, j_log, fid, jobFrame>>

\* the sources are exhausted: export_hdf5 and export2hdf5_cli return
JobReturn ==
    /\ j_pc = "source"
    /\ j_k > Len(j_config.datasets)
    /\ SysExit(0)
    /\ UNCHANGED <<j_res, j_config, j_disk, j_handle, j_k, j_m, j_data, j_log, fid,
                   jobFrame>>

NextJob ==
    \/ CliParse \/ CliIsFile \/ CliValidate \/ CliValidateOnly \/ CliExport
    \/ JobLoad \/ JobInit \/ JobRead \/ JobMapData \/ JobMapMeta
    \/ JobNextSource \/ JobReturn

SpecJob == InitJob /\ [][NextJob]_vars


---------------------------------------------------------------------------
(* Claims about the export job and the command line                        *)

\* the process has ended
JobEnded == j_pc = "exited"

\* export_hdf5 ran to its end
ExportSucceeded == JobEnded /\ j_handle # "none" /\ j_err = "none"

\* C22: on every path of an export job, success or failure, the container
\* handle the job opened is closed before the job terminates
C22_HandleClosedAtExit ==
    (JobEnded /\ j_handle # "none") => j_handle = "closed"

\* the steps of one mapping, then of one source, then of the job, in the
\* order of the description
MapSteps(src, k, m) ==
    <<<<"data", k, m>>>>
    \o (IF src.maps[m].hasMeta THEN <<<<"meta", k, m>>>> ELSE <<>>)

RECURSIVE MapsSteps(_, _, _)
MapsSteps(src, k, m) ==
    IF m > Len(src.maps) THEN <<>>
    ELSE MapSteps(src, k, m) \o MapsSteps(src, k, m + 1)

RECURSIVE ExpectedLog(_, _)
ExpectedLog(config, k) ==
    IF k > Len(config.datasets) THEN <<>>
    ELSE <<<<"read", k, 0>>>> \o MapsSteps(config.datasets[k], k, 1)
         \o ExpectedLog(config, k + 1)

IsPrefix(s, t) == Len(s) <= Len(t) /\ SubSeq(t, 1, Len(s)) = s

\* C23: the sources are read in the order listed, each exactly once, the
\* mappings of a source are written in the order listed and before the next
\* source is read, and the data of a mapping is written before its metadata
C23_DeclaredOrder ==
    /\ IsPrefix(j_log, ExpectedLog(j_config, 1))
    /\ ExportSucceeded => j_log = ExpectedLog(j_config, 1)

C23_Witness ==
    /\ ExportSucceeded
    /\ Len(j_config.datasets) = 2
    /\ Len(j_config.datasets[1].maps) = 2
    /\ \E i \in 1..Len(j_log) : j_log[i][1] = "meta"
    /\ j_log[Len(j_log)] = <<"data", 2, 1>>

\* the job description is malformed or rejected by the schema
DescriptionInvalid ==
    cli_args.config_file = "file" /\ ~(cfg_file.json_ok /\ cfg_file.schema_ok)

\* C24: when the validation of the job description fails, the command line
\* neither runs the export nor creates (truncates) the output container
C24_InvalidNeverExports ==
    DescriptionInvalid =>
        /\ j_handle = "none"
        /\ j_pc \in {"cli_start", "cli_isfile", "cli_validate", "cli_mode", "exited"}

\* C25: the exit status is 0 exactly when the export succeeded or a
\* validate-only run found the description valid, and 1 when the file is not
\* given, missing or invalid, or the job failed
C25_ExitStatus ==
    JobEnded =>
        /\ exit_status \in {0, 1}
        /\ exit_status = 0 <=>
              /\ cli_args.config_file = "file"
              /\ cfg_file.json_ok /\ cfg_file.schema_ok
              /\ cli_args.validate_only \/ ExportSucceeded

\* the metadata entries are attributes of the object at path
MetaAttached(f, path, meta) ==
    /\ path \in DOMAIN f
    /\ \A i \in 1..Len(meta) :
          AddMetaKeys(f[path].attrs, meta[i].info, meta[i].info.keys) = f[path].attrs

\* C26: a mapping of an events or text source makes one leaf at its path,
\* its declared metadata is attached to it without channel expansion, and
\* the calls for it complete without error
C26_EventsTextMeta ==
    \A i \in 1..Len(j_log) :
        LET k   == j_log[i][2]
            src == j_config.datasets[k]
            map == src.maps[j_log[i][3]]
        IN  (j_log[i][1] = "meta" /\ readerlist[src.data_type] # "signal") =>
                /\ j_err # "TypeError"
                /\ map.path \in DOMAIN fid
                /\ fid[map.path].kind = "dataset"
                /\ MetaAttached(fid, map.path, map.meta)

\* no mapping has been written yet
NothingWritten == \A i \in 1..Len(j_log) : j_log[i][1] = "read"

\* C27: the container is created, truncating what is at the output path,
\* before the first source is dispatched or read, so a job that stops at an
\* unknown data_type or a failed first read leaves a new, empty container
C27_TruncatedBeforeRead ==
    /\ j_pc \in {"source", "map", "meta"} => j_handle = "open"
    /\ j_log # <<>> => j_handle = "open"
    /\ (j_handle = "open" /\ NothingWritten) => j_disk = "new" /\ fid = EmptyFile

C27_Witness ==
    /\ JobEnded
    /\ j_handle = "open"
    /\ j_k = 1
    /\ \/ j_err = "KeyError" /\ j_log = <<>>
       \/ j_err = "OSError" /\ j_log = <<<<"read", 1, 0>>>>
    /\ j_disk = "new"

=============================================================================
